---- MODULE Spec2Model ----
(***************************************************************************)
(* Model of src/src/components/ThreePanoramaViewer.tsx.                    *)
(*                                                                         *)
(* One React function component with three pieces of state                 *)
(* (panoramaImage, loading, error), two props that drive it (panoId,       *)
(* clickedImagePath), a fetch effect, a scene effect and an object-URL     *)
(* effect.  React 18 is assumed (README.md:120): all setState calls made   *)
(* in one synchronous run are batched into one render, and a render        *)
(* followed by its effect cleanups and effects is one step of the model.   *)
(*                                                                         *)
(* Angles are fixed point: lon and lat are in tenths of a degree (the      *)
(* code multiplies integer pixel deltas by 0.1), fov is in twentieths of a *)
(* degree (the code multiplies wheel deltas by 0.05).                      *)
(***************************************************************************)
EXTENDS Integers, Sequences, FiniteSets, TLC

\* ------------------------------------------------------------------ bounds
MaxFetches == 3        \* number of fetches issued in one behaviour
LonBound == 20         \* |lon| explored, in tenths of a degree
MaxPopupFetches == 3   \* number of requests TreePopup issues in one behaviour
MaxMaskCalls == 2      \* number of calls of loadPanoramaMaskData in one behaviour

\* ---------------------------------------------------------------- inputs
PanoIds == {1, 2}                       \* non-null panorama ids
ImagePaths == {1}                       \* defined clickedImagePath values
MouseXs == {80, 100}                    \* event.clientX
MouseYs == {0, 900}                     \* event.clientY
WheelDeltas == {-1000, 1000}            \* event.deltaY
StatusTexts == {"", "Internal Server Error"}   \* response.statusText
TransportMessages == {"Failed to fetch"}       \* message of a rejected fetch
ScenarioXs == {80, 100}                 \* event.clientX in the drag scenario
ScenarioYs == {100, 130}                \* event.clientY in the drag scenario
ScenarioDeltas == {-1000, 200}          \* event.deltaY in the wheel scenario
SurfaceSizes == {<<800, 600>>, <<400, 600>>, <<400, 300>>}   \* layout sizes of the mount div
TreeIds == {1, 2}                       \* trees, named by their csv_index
StreetViewIds == {1}                    \* street-view markers
TreePayloads == {{}, TreeIds}           \* what /api/tree-data can answer
StreetViewPayloads == {{}, StreetViewIds}      \* what /api/streetview-data can answer
ClickPoints == {<<10, 20>>, <<300, 40>>}       \* <<event.clientX, event.clientY>> of a map click
Keys == {"Escape", "Enter"}             \* e.key
TreeViewErrors == {"", "Tree not found"}       \* response.data.error ("" for a missing one)
HttpStatuses == {200, 404, 500}         \* response.status of /api/mask-data
MaskPayloads == {1}                     \* parsed mask data

\* ------------------------------------------------------- program constants
NoPano == 0            \* panoId === null
NoPath == 0            \* clickedImagePath === undefined
NoImage == 0           \* panoramaImage === null
NoScene == 0           \* sceneRef.current === null
AngleScale == 10       \* 1 / 0.1
FovScale == 20         \* 1 / 0.05
MinLat == -85
MaxLat == 85
MinFov == 10
MaxFov == 75
InitialFov == 75

NoTree == 0            \* clickedTree === null
NoData == 0            \* TreePopup data === null
NoInstance == 0        \* no TreePopup is mounted
NoPosition == <<>>     \* popupPosition === null
NoObject == 0          \* info.object === undefined
NoMask == 0            \* loadPanoramaMaskData's null
None == <<>>           \* error === null
Some(m) == <<m>>       \* error === m

VARIABLES
  mounted,             \* the component instance is mounted
  panoId,              \* prop
  clickedImagePath,    \* prop
  panoramaImage,       \* state: id of the object URL shown, or NoImage
  loading,             \* state
  error,               \* state: None or Some(message)
  fetches,             \* the fetches issued, in order: "pending", "ok" or "failed"
  issuedInError,       \* the error branch was rendered when the latest fetch was issued
  objectURLs,          \* object URLs created and not revoked
  scenes,              \* every scene set ever built:
                       \*   [image, disposed, texture, listeners, raf]
  sceneRef,            \* sceneRef.current: index into scenes, or NoScene
  hasCleanup,          \* the last run of the scene effect returned a cleanup
  lastRender,          \* what the latest renderer.render call drew
  isMouseDown, mouseX, mouseY, lon, lat,   \* closure of the scene effect's last run
  fov,                 \* camera.fov of that scene
  mountSize,           \* <<width, height>> the layout gives the mount div
  cameraAspect,        \* camera.aspect as <<numerator, denominator>>
  rendererSize,        \* the size last passed to renderer.setSize
  releasedUnseen,      \* the button went up where the mount div got no mouseup
  treeData,            \* App state
  streetViewData,      \* App state
  appLoading,          \* App state `loading`
  appError,            \* App state `error`: None or Some(message)
  loadData,            \* position of App's loadData: what it awaits, or how it ended
  trees,               \* the local `trees` of loadData once loadTreeData resolved
  clickedTree,         \* App state: a tree, or NoTree
  popupPosition,       \* App state: <<x, y>>, or NoPosition
  popupInstance,       \* number of the mounted TreePopup instance, 0 if none
  popupLoading,        \* TreePopup state `loading`
  popupData,           \* TreePopup state `data`: the response shown, or NoData
  popupError,          \* TreePopup state `error`: None or Some(message)
  popupFetches,        \* the axios requests of TreePopup: [instance, csvIndex, status]
  maskCalls            \* the calls of loadPanoramaMaskData: [panoId, at, outcome, result]

propVars == <<mounted, panoId, clickedImagePath>>
stateVars == <<panoramaImage, loading, error>>
sceneVars == <<scenes, sceneRef, hasCleanup>>
frameVars == <<lastRender>>
cameraVars == <<isMouseDown, mouseX, mouseY, lon, lat, fov>>
sizeVars == <<mountSize, cameraAspect, rendererSize>>
appVars == <<treeData, streetViewData, appLoading, appError, loadData, trees,
             clickedTree, popupPosition>>
popupVars == <<popupInstance, popupLoading, popupData, popupError, popupFetches>>
\* Everything outside ThreePanoramaViewer
outerVars == <<appVars, popupVars, maskCalls>>
viewerVars == <<propVars, stateVars, fetches, issuedInError, objectURLs, sceneVars, frameVars,
                cameraVars, sizeVars, releasedUnseen>>
vars == <<viewerVars, outerVars>>

\* ---------------------------------------------------------------- helpers
\* clamp with the upper limit forgotten
clampLowerOnly(v, lo, hi) == IF v < lo THEN lo ELSE v

\* THREE.MathUtils.clamp / Math.max(lo, Math.min(hi, v))
clamp(v, lo, hi) == IF v < lo THEN lo ELSE IF v > hi THEN hi ELSE v

\* JavaScript truthiness of the error state (string | null)
Truthy(e) == e # None /\ e[1] # ""

\* The JSX conditional with the panoramaImage test moved before the loading
\* test
RenderBranchImageFirst(p, l, e, img) ==
  IF p = NoPano THEN "idle"
  ELSE IF img # NoImage /\ ~Truthy(e) THEN "ready"
  ELSE IF l THEN "loading"
  ELSE IF Truthy(e) THEN "error"
  ELSE "empty"

\* The branch of the JSX conditional the component renders
RenderBranch(p, l, e, img) ==
  IF p = NoPano THEN "idle"
  ELSE IF l THEN "loading"
  ELSE IF Truthy(e) THEN "error"
  ELSE IF img # NoImage THEN "ready"
  ELSE "empty"

Status ==
  IF ~mounted THEN "unmounted"
  ELSE RenderBranch(panoId, loading, error, panoramaImage)

\* The mount div rendered in every branch
MountAlwaysRendered(branch) == TRUE

\* mountRef.current is the div of the ready branch, null in any other branch
MountAttached(branch) == branch = "ready"

\* The message without its fixed prefix
StatusTextOnly(statusText) == statusText

\* Message thrown for a non-ok response
HttpErrorMessage(statusText) == "Failed to fetch panorama: " \o statusText

LiveScenes == {k \in DOMAIN scenes : ~scenes[k].disposed}

\* The listeners the scene effect registers: five on the mount div, one on
\* window
InputListeners == {"mousedown", "mousemove", "mouseup", "wheel", "contextmenu"}
RegisteredListeners == InputListeners \cup {"resize"}

\* The listeners cleanup removes
RemovedListeners == {"mousedown", "mousemove", "mouseup", "wheel", "resize"}

\* What the scene effect builds for image img: the texture is still loading,
\* the listeners are registered, and the synchronous first call of animate
\* has left one callback scheduled with requestAnimationFrame.
NewScene(img) ==
  [image |-> img, disposed |-> FALSE, texture |-> "loading",
   listeners |-> RegisteredListeners, raf |-> 1]

\* A cleanup that removes the listeners but disposes nothing
cleanupWithoutDispose(scs, ref) == scs

\* sceneRef.current.cleanup(): dispose the scene sceneRef points at.  The
\* callback scheduled with requestAnimationFrame is not cancelled.
cleanup(scs, ref) ==
  IF ref = NoScene THEN scs
  ELSE [scs EXCEPT ![ref].disposed = TRUE,
                   ![ref].texture = "disposed",
                   ![ref].listeners = @ \ RemovedListeners]

\* The calls cleanup makes, in order
cleanupSteps ==
  << <<"removeEventListener", "mousedown">>,
     <<"removeEventListener", "mousemove">>,
     <<"removeEventListener", "mouseup">>,
     <<"removeEventListener", "wheel">>,
     <<"removeEventListener", "resize">>,
     <<"removeChild", "domElement">>,
     <<"dispose", "geometry">>,
     <<"dispose", "material">>,
     <<"dispose", "texture">>,
     <<"dispose", "renderer">> >>

\* The calls made when the cleanups of the two effects with deps
\* [panoramaImage] run (on a change of panoramaImage and on unmount), scene
\* effect first: registered tells whether the scene effect's last run
\* returned a cleanup, img is the image of that run.
EffectCleanupSteps(registered, ref, img) ==
  (IF registered /\ ref # NoScene THEN cleanupSteps ELSE <<>>)
    \o (IF img # NoImage THEN << <<"revokeObjectURL", "panoramaImage">> >> ELSE <<>>)

\* URL.revokeObjectURL(panoramaImage) guarded by `if (panoramaImage)`
revokeObjectURL(urls, img) == IF img # NoImage THEN urls \ {img} ELSE urls

\* mount.clientWidth and mount.clientHeight: the layout size while the mount
\* div is rendered (the ready branch), 0 for a div that left the document
MountClientSize(branch) == IF branch = "ready" THEN mountSize ELSE <<0, 0>>

\* The closure variables and the camera as the scene effect creates them.
\* They are also the value the model gives them once cleanup has removed the
\* listeners: from then on no handler can read or write that closure.
FreshCamera ==
  /\ isMouseDown' = FALSE
  /\ mouseX' = 0
  /\ mouseY' = 0
  /\ lon' = 0
  /\ lat' = 0
  /\ fov' = InitialFov * FovScale

\* -------------------------------------------------------------- the commit
\* Runs after a render in which panoramaImage went from the current value to
\* newImg and the rendered branch is newBranch; urls is the set of object
\* URLs before the effects run.  Effects with deps [panoramaImage] run only
\* when the value changed: first the cleanups of the previous run (scene
\* cleanup, then URL revocation), then the scene effect body.
CommitEffects(newImg, newBranch, urls) ==
  IF newImg = panoramaImage
  THEN /\ objectURLs' = urls
       /\ UNCHANGED <<sceneVars, frameVars, sizeVars, cameraVars>>
  ELSE LET cleaned == IF hasCleanup THEN cleanup(scenes, sceneRef) ELSE scenes
       IN /\ objectURLs' = revokeObjectURL(urls, panoramaImage)
          /\ IF newImg # NoImage /\ MountAttached(newBranch)
             THEN /\ scenes' = Append(cleaned, NewScene(newImg))
                  /\ sceneRef' = Len(cleaned) + 1
                  /\ hasCleanup' = TRUE
                  /\ lastRender' = "ready"
                  /\ cameraAspect' = MountClientSize(newBranch)
                  /\ rendererSize' = MountClientSize(newBranch)
                  /\ UNCHANGED mountSize
                  /\ FreshCamera
             ELSE /\ scenes' = cleaned
                  /\ hasCleanup' = FALSE
                  /\ FreshCamera
                  /\ UNCHANGED <<sceneRef, lastRender, sizeVars>>

\* ------------------------------------------------------------------- Init
Init ==
  /\ mounted = TRUE
  /\ panoId = NoPano
  /\ clickedImagePath = NoPath
  /\ panoramaImage = NoImage
  /\ loading = FALSE
  /\ error = None
  /\ fetches = <<>>
  /\ issuedInError = FALSE
  /\ objectURLs = {}
  /\ scenes = <<>>
  /\ sceneRef = NoScene
  /\ hasCleanup = FALSE
  /\ lastRender = "none"
  /\ isMouseDown = FALSE
  /\ mouseX = 0
  /\ mouseY = 0
  /\ lon = 0
  /\ lat = 0
  /\ fov = InitialFov * FovScale
  /\ mountSize = <<800, 600>>
  /\ cameraAspect = <<0, 0>>
  /\ rendererSize = <<0, 0>>
  /\ releasedUnseen = FALSE
  /\ treeData = {}
  /\ streetViewData = {}
  /\ appLoading = TRUE
  /\ appError = None
  /\ loadData = "loadTreeData"
  /\ trees = {}
  /\ clickedTree = NoTree
  /\ popupPosition = NoPosition
  /\ popupInstance = NoInstance
  /\ popupLoading = TRUE
  /\ popupData = NoData
  /\ popupError = None
  /\ popupFetches = <<>>
  /\ maskCalls = <<>>

\* ---------------------------------------------------------------- actions
\* The parent re-renders the viewer with panoId = null (or changes
\* clickedImagePath while panoId is null): the fetch effect takes its null
\* branch.
SetPropsNull(c) ==
  /\ mounted
  /\ <<NoPano, c>> # <<panoId, clickedImagePath>>
  /\ panoId' = NoPano
  /\ clickedImagePath' = c
  /\ panoramaImage' = NoImage
  /\ error' = None
  /\ UNCHANGED <<mounted, loading, fetches, issuedInError>>
  /\ CommitEffects(NoImage, "idle", objectURLs)
  /\ UNCHANGED <<releasedUnseen, outerVars>>

\* The parent re-renders the viewer with a new (panoId, clickedImagePath),
\* panoId non-null: the fetch effect starts fetchPanorama.
SetPropsLoad(p, c) ==
  /\ mounted
  /\ p # NoPano
  /\ <<p, c>> # <<panoId, clickedImagePath>>
  /\ Len(fetches) < MaxFetches
  /\ panoId' = p
  /\ clickedImagePath' = c
  /\ loading' = TRUE
  /\ error' = None
  /\ fetches' = Append(fetches, "pending")
  /\ issuedInError' = (Status = "error")
  /\ UNCHANGED <<mounted, panoramaImage>>
  /\ CommitEffects(panoramaImage, "loading", objectURLs)
  /\ UNCHANGED <<releasedUnseen, outerVars>>

\* `await fetch(url)` and `await response.blob()` succeed for request r:
\* createObjectURL, setPanoramaImage(imageUrl), then setLoading(false) in the
\* finally block.  The object URL of request r is identified by r.  On an
\* unmounted instance the setState calls have no effect.
FetchSucceeds(r) ==
  /\ r \in DOMAIN fetches
  /\ fetches[r] = "pending"
  /\ fetches' = [fetches EXCEPT ![r] = "ok"]
  /\ UNCHANGED <<propVars, error, issuedInError>>
  /\ IF mounted
     THEN /\ panoramaImage' = r
          /\ loading' = FALSE
          /\ CommitEffects(r, RenderBranch(panoId, FALSE, error, r),
                           objectURLs \cup {r})
     ELSE /\ objectURLs' = objectURLs \cup {r}
          /\ UNCHANGED <<panoramaImage, loading, sceneVars, frameVars, sizeVars, cameraVars>>
  /\ UNCHANGED <<releasedUnseen, outerVars>>

\* A catch block that issues the request again after a failure
FetchRejectedRetry(r, message) ==
  /\ r \in DOMAIN fetches
  /\ fetches[r] = "pending"
  /\ fetches' = Append([fetches EXCEPT ![r] = "failed"], "pending")
  /\ UNCHANGED <<propVars, panoramaImage, issuedInError>>
  /\ IF mounted
     THEN /\ error' = Some(message)
          /\ loading' = TRUE
     ELSE UNCHANGED <<error, loading>>
  /\ CommitEffects(panoramaImage,
                   RenderBranch(panoId, TRUE, Some(message), panoramaImage),
                   objectURLs)
  /\ UNCHANGED <<releasedUnseen, outerVars>>

\* The catch and finally blocks of fetchPanorama: setError(message),
\* setLoading(false).
FetchRejected(r, message) ==
  /\ r \in DOMAIN fetches
  /\ fetches[r] = "pending"
  /\ fetches' = [fetches EXCEPT ![r] = "failed"]
  /\ UNCHANGED <<propVars, panoramaImage, issuedInError>>
  /\ IF mounted
     THEN /\ error' = Some(message)
          /\ loading' = FALSE
     ELSE UNCHANGED <<error, loading>>
  /\ CommitEffects(panoramaImage,
                   RenderBranch(panoId, FALSE, Some(message), panoramaImage),
                   objectURLs)
  /\ UNCHANGED <<releasedUnseen, outerVars>>

\* The response of request r arrives with response.ok false
FetchHttpError(r, statusText) == FetchRejected(r, HttpErrorMessage(statusText))

\* fetch(url) of request r rejects (transport error)
FetchTransportError(r, message) == FetchRejected(r, message)

\* React unmounts the component: the cleanups of the scene effect and of the
\* object-URL effect run.
Unmount ==
  /\ mounted
  /\ mounted' = FALSE
  /\ scenes' = IF hasCleanup THEN cleanup(scenes, sceneRef) ELSE scenes
  /\ objectURLs' = revokeObjectURL(objectURLs, panoramaImage)
  /\ hasCleanup' = FALSE
  /\ FreshCamera
  /\ UNCHANGED <<panoId, clickedImagePath, stateVars, fetches, issuedInError, sceneRef,
                 lastRender, sizeVars>>
  /\ UNCHANGED <<releasedUnseen, outerVars>>

\* The listeners of the last scene built are registered on its mount div and
\* that div is in the document: the scene is not disposed and the ready
\* branch is rendered (a div that left the document never comes back, and a
\* return to the ready branch always builds a new scene).
ListenersActive ==
  /\ mounted
  /\ Status = "ready"
  /\ sceneRef # NoScene
  /\ ~scenes[sceneRef].disposed

onMouseDown(x, y) ==
  /\ ListenersActive
  /\ isMouseDown' = TRUE
  /\ mouseX' = x
  /\ mouseY' = y
  /\ UNCHANGED <<propVars, stateVars, fetches, issuedInError, objectURLs, sceneVars, frameVars, sizeVars,
                 lon, lat, fov>>
  /\ releasedUnseen' = FALSE
  /\ UNCHANGED outerVars

onMouseUp ==
  /\ ListenersActive
  /\ isMouseDown' = FALSE
  /\ UNCHANGED <<propVars, stateVars, fetches, issuedInError, objectURLs, sceneVars, frameVars, sizeVars,
                 mouseX, mouseY, lon, lat, fov>>
  /\ releasedUnseen' = FALSE
  /\ UNCHANGED outerVars

\* The button is released while the pointer is outside the mount div: the
\* mouseup listener is registered on the mount div only (no listener on
\* window or document, no pointer capture), so no handler runs.
mouseUpOutside ==
  /\ ListenersActive
  /\ isMouseDown
  /\ ~releasedUnseen
  /\ releasedUnseen' = TRUE
  /\ UNCHANGED <<propVars, stateVars, fetches, issuedInError, objectURLs, sceneVars, frameVars,
                 sizeVars, cameraVars, outerVars>>

\* A move handler with the sign of the longitude update flipped
onMouseMoveLonAdded(x, y) ==
  /\ ListenersActive
  /\ IF ~isMouseDown
     THEN UNCHANGED <<mouseX, mouseY, lon, lat>>
     ELSE LET deltaX == x - mouseX
              deltaY == y - mouseY
          IN /\ lon + deltaX \in -LonBound..LonBound
             /\ mouseX' = x
             /\ mouseY' = y
             /\ lon' = lon + deltaX
             /\ lat' = clamp(lat + deltaY, MinLat * AngleScale, MaxLat * AngleScale)
  /\ UNCHANGED <<propVars, stateVars, fetches, issuedInError, objectURLs, sceneVars, frameVars,
                 sizeVars, isMouseDown, fov>>
  /\ UNCHANGED <<releasedUnseen, outerVars>>

\* A move handler that measures the delta from the drag start: it never
\* records the new pointer position
onMouseMoveFromDragStart(x, y) ==
  /\ ListenersActive
  /\ IF ~isMouseDown
     THEN UNCHANGED <<lon, lat>>
     ELSE LET deltaX == x - mouseX
              deltaY == y - mouseY
          IN /\ lon - deltaX \in -LonBound..LonBound
             /\ lon' = lon - deltaX
             /\ lat' = clamp(lat + deltaY, MinLat * AngleScale, MaxLat * AngleScale)
  /\ UNCHANGED <<propVars, stateVars, fetches, issuedInError, objectURLs, sceneVars, frameVars, sizeVars,
                 isMouseDown, mouseX, mouseY, fov>>
  /\ UNCHANGED <<releasedUnseen, outerVars>>

onMouseMove(x, y) ==
  /\ ListenersActive
  /\ IF ~isMouseDown
     THEN UNCHANGED <<mouseX, mouseY, lon, lat>>
     ELSE LET deltaX == x - mouseX
              deltaY == y - mouseY
          IN /\ lon - deltaX \in -LonBound..LonBound
             /\ mouseX' = x
             /\ mouseY' = y
             /\ lon' = lon - deltaX
             /\ lat' = clamp(lat + deltaY, MinLat * AngleScale, MaxLat * AngleScale)
  /\ UNCHANGED <<propVars, stateVars, fetches, issuedInError, objectURLs, sceneVars, frameVars, sizeVars,
                 isMouseDown, fov>>
  /\ UNCHANGED <<releasedUnseen, outerVars>>

\* A wheel handler that limits the field of view from below only
onWheelUpperUnclamped(deltaY) ==
  /\ ListenersActive
  /\ fov' = IF fov + deltaY < MinFov * FovScale THEN MinFov * FovScale ELSE fov + deltaY
  /\ UNCHANGED <<propVars, stateVars, fetches, issuedInError, objectURLs, sceneVars, frameVars,
                 sizeVars, isMouseDown, mouseX, mouseY, lon, lat>>
  /\ UNCHANGED <<releasedUnseen, outerVars>>

onWheel(deltaY) ==
  /\ ListenersActive
  /\ fov' = clamp(fov + deltaY, MinFov * FovScale, MaxFov * FovScale)
  /\ UNCHANGED <<propVars, stateVars, fetches, issuedInError, objectURLs, sceneVars, frameVars, sizeVars,
                 isMouseDown, mouseX, mouseY, lon, lat>>
  /\ UNCHANGED <<releasedUnseen, outerVars>>

\* The image of scene k finishes loading: the onLoad callback passed to
\* textureLoader.load sets the sampling parameters of the texture.
textureOnLoad(k) ==
  /\ k \in DOMAIN scenes
  /\ scenes[k].texture = "loading"
  /\ scenes' = [scenes EXCEPT ![k].texture = "loaded"]
  /\ UNCHANGED <<propVars, stateVars, fetches, issuedInError, objectURLs, sceneRef,
                 hasCleanup, frameVars, sizeVars, cameraVars>>
  /\ UNCHANGED <<releasedUnseen, outerVars>>

\* The image of scene k cannot be decoded: textureLoader.load was given no
\* onError callback, so nothing but the texture is affected.
textureOnError(k) ==
  /\ k \in DOMAIN scenes
  /\ scenes[k].texture = "loading"
  /\ scenes' = [scenes EXCEPT ![k].texture = "error"]
  /\ UNCHANGED <<propVars, stateVars, fetches, issuedInError, objectURLs, sceneRef,
                 hasCleanup, frameVars, sizeVars, cameraVars>>
  /\ UNCHANGED <<releasedUnseen, outerVars>>

\* What a call of renderer.render for scene k draws
RenderTarget(k) ==
  IF scenes[k].disposed THEN "disposed"
  ELSE IF k = sceneRef /\ Status = "ready" THEN "ready"
  ELSE "detached"

\* The browser runs the callback scene k scheduled with
\* requestAnimationFrame: animate points the camera at (lon, lat), renders
\* and schedules itself again.
animate(k) ==
  /\ k \in DOMAIN scenes
  /\ scenes[k].raf > 0
  /\ lastRender' = RenderTarget(k)
  /\ scenes' = [scenes EXCEPT ![k].raf = @ - 1 + 1]
  /\ UNCHANGED <<propVars, stateVars, fetches, issuedInError, objectURLs, sceneRef,
                 hasCleanup, cameraVars, sizeVars>>
  /\ UNCHANGED <<releasedUnseen, outerVars>>

\* The window is resized and the layout gives the mount div the size s: the
\* resize listener of the live scene, if there is one, runs handleResize,
\* which reads mount.clientWidth and mount.clientHeight.
handleResize(s) ==
  /\ mounted
  /\ mountSize' = s
  /\ IF \E k \in DOMAIN scenes : "resize" \in scenes[k].listeners
     THEN /\ cameraAspect' = IF Status = "ready" THEN s ELSE <<0, 0>>
          /\ rendererSize' = IF Status = "ready" THEN s ELSE <<0, 0>>
     ELSE UNCHANGED <<cameraAspect, rendererSize>>
  /\ UNCHANGED <<propVars, stateVars, fetches, issuedInError, objectURLs, sceneVars, frameVars,
                 cameraVars, releasedUnseen, outerVars>>

\* The layout gives the mount div the size s while the window keeps its
\* size (the containing element alone is resized): no resize event is
\* dispatched on window and the component observes the div in no other way.
containerResize(s) ==
  /\ mounted
  /\ s # mountSize
  /\ mountSize' = s
  /\ UNCHANGED <<cameraAspect, rendererSize>>
  /\ UNCHANGED <<propVars, stateVars, fetches, issuedInError, objectURLs, sceneVars, frameVars,
                 cameraVars, releasedUnseen, outerVars>>

\* The steps of the component's life cycle: prop changes, fetch outcomes and
\* unmount
Lifecycle ==
  \/ \E c \in ImagePaths \cup {NoPath} : SetPropsNull(c)
  \/ \E p \in PanoIds, c \in ImagePaths \cup {NoPath} : SetPropsLoad(p, c)
  \/ \E r \in 1..MaxFetches : FetchSucceeds(r)
  \/ \E r \in 1..MaxFetches, s \in StatusTexts : FetchHttpError(r, s)
  \/ \E r \in 1..MaxFetches, m \in TransportMessages : FetchTransportError(r, m)
  \/ Unmount

\* The life cycle together with the input handlers.  The handlers read and
\* write only the closure variables and camera.fov; the texture callbacks and
\* animate, which write only scenes[k].texture and lastRender, are composed
\* with the life cycle in FrameSpec.
Next ==
  \/ Lifecycle
  \/ \E x \in MouseXs, y \in MouseYs : onMouseDown(x, y)
  \/ onMouseUp
  \/ \E x \in MouseXs, y \in MouseYs : onMouseMove(x, y)
  \/ \E d \in WheelDeltas : onWheel(d)

Spec == Init /\ [][Next]_vars

\* The life cycle together with the texture callbacks and the animation
\* frames of every scene built so far.
FrameNext ==
  \/ Lifecycle
  \/ \E k \in 1..MaxFetches : textureOnLoad(k)
  \/ \E k \in 1..MaxFetches : textureOnError(k)
  \/ \E k \in 1..MaxFetches : animate(k)

FrameSpec == Init /\ [][FrameNext]_vars

\* The viewer loads its first panorama
FirstLoad(p) == fetches = <<>> /\ SetPropsLoad(p, NoPath)

\* One panorama is loaded and the user then works the pointer and the wheel
\* over it, with the pointer positions and wheel deltas of the scenarios; the
\* button may also be released outside the mount div.
PointerNext ==
  \/ \E p \in PanoIds : FirstLoad(p)
  \/ FetchSucceeds(1)
  \/ \E x \in ScenarioXs, y \in ScenarioYs : onMouseDown(x, y)
  \/ onMouseUp
  \/ mouseUpOutside
  \/ \E x \in ScenarioXs, y \in ScenarioYs : onMouseMove(x, y)
  \/ \E d \in ScenarioDeltas : onWheel(d)

PointerSpec == Init /\ [][PointerNext]_vars

\* The life cycle together with changes of the size of the mount div
ResizeNext ==
  \/ Lifecycle
  \/ \E s \in SurfaceSizes : handleResize(s)
  \/ \E s \in SurfaceSizes : containerResize(s)

ResizeSpec == Init /\ [][ResizeNext]_vars

\* ------------------------------------------------------------------- App
\* tree.pano_id of the tree with the given csv_index (never empty)
pano_id == <<1, 2>>

\* The panoId prop App passes to ThreePanoramaViewer
ViewerPanoId(ct) == IF ct = NoTree THEN NoPano ELSE pano_id[ct]

\* App returns its loading or error screen before it renders the map
MapRendered == ~appLoading /\ ~Truthy(appError)

\* The rejection of loadTreeData, whatever failed inside its try block
loadTreeDataError(cause) == "Failed to load tree data: " \o cause

\* The rejection of loadStreetViewData
loadStreetViewDataError(cause) == "Failed to load street view data: " \o cause

\* What can fail inside loadTreeData: the fetch itself, or a response that
\* is not ok
TreeDataCauses ==
  TransportMessages \cup {"Failed to fetch tree data: " \o st : st \in StatusTexts}

StreetViewCauses ==
  TransportMessages \cup {"Failed to fetch street view data: " \o st : st \in StatusTexts}

\* The catch block of loadData
loadDataCatch(message) ==
  /\ appError' = Some("Failed to load data: " \o message)
  /\ appLoading' = FALSE
  /\ loadData' = "failed"

\* `await loadTreeData()` resolves: loadData goes on to loadStreetViewData
loadTreeDataResolves(ts) ==
  /\ loadData = "loadTreeData"
  /\ trees' = ts
  /\ loadData' = "loadStreetViewData"
  /\ UNCHANGED <<treeData, streetViewData, appLoading, appError, clickedTree, popupPosition,
                 popupVars, maskCalls, viewerVars>>

\* `await loadTreeData()` rejects
loadTreeDataRejects(cause) ==
  /\ loadData = "loadTreeData"
  /\ loadDataCatch(loadTreeDataError(cause))
  /\ UNCHANGED <<treeData, streetViewData, trees, clickedTree, popupPosition,
                 popupVars, maskCalls, viewerVars>>

\* `await loadStreetViewData()` resolves: setTreeData, setStreetViewData,
\* setLoading(false)
loadStreetViewDataResolves(svs) ==
  /\ loadData = "loadStreetViewData"
  /\ treeData' = trees
  /\ streetViewData' = svs
  /\ appLoading' = FALSE
  /\ loadData' = "done"
  /\ UNCHANGED <<appError, trees, clickedTree, popupPosition, popupVars, maskCalls, viewerVars>>

\* A loadData that stores the trees as soon as they arrive
loadStreetViewDataRejectsTreesKept(cause) ==
  /\ loadData = "loadStreetViewData"
  /\ loadDataCatch(loadStreetViewDataError(cause))
  /\ treeData' = trees
  /\ UNCHANGED <<streetViewData, trees, clickedTree, popupPosition,
                 popupVars, maskCalls, viewerVars>>

\* `await loadStreetViewData()` rejects
loadStreetViewDataRejects(cause) ==
  /\ loadData = "loadStreetViewData"
  /\ loadDataCatch(loadStreetViewDataError(cause))
  /\ UNCHANGED <<treeData, streetViewData, trees, clickedTree, popupPosition,
                 popupVars, maskCalls, viewerVars>>

\* What a click on the map can pick: a tree of treeData on the 'trees' layer,
\* a marker of streetViewData on the 'streetviews' layer, or nothing
PickInfos ==
  {[layer |-> "trees", picked |-> TRUE, object |-> t] : t \in TreeIds}
    \cup {[layer |-> "streetviews", picked |-> TRUE, object |-> v] : v \in StreetViewIds}
    \cup {[layer |-> "none", picked |-> FALSE, object |-> NoObject]}

Pickable(info) ==
  \/ info.layer = "trees" /\ info.object \in treeData
  \/ info.layer = "streetviews" /\ info.object \in streetViewData
  \/ info.layer = "none"

\* ------------------------------------------------------------- TreePopup
\* App renders TreePopup when `clickedTree && popupPosition`
PopupRendered(ct, pp) == ct # NoTree /\ pp # NoPosition

\* The number of the next TreePopup instance to mount
NextInstance ==
  IF popupFetches = <<>> THEN 1 ELSE popupFetches[Len(popupFetches)].instance + 1

\* fetchTreeView up to its await: setLoading(true), setError(null) and the
\* axios request for csvIndex
fetchTreeView(instance, csvIndex) ==
  /\ Len(popupFetches) < MaxPopupFetches
  /\ popupLoading' = TRUE
  /\ popupError' = None
  /\ popupFetches' = Append(popupFetches,
                            [instance |-> instance, csvIndex |-> csvIndex,
                             status |-> "pending"])

\* What the render of App with clickedTree = ct and popupPosition = pp does
\* to TreePopup: unmount it, mount a new instance (initial state, then the
\* effect with deps [csvIndex]), re-run that effect when csvIndex changed, or
\* only move the popup.
PopupCommit(ct, pp) ==
  IF ~PopupRendered(ct, pp)
  THEN /\ popupInstance' = NoInstance
       /\ popupLoading' = TRUE
       /\ popupData' = NoData
       /\ popupError' = None
       /\ UNCHANGED popupFetches
  ELSE IF popupInstance = NoInstance
  THEN /\ popupInstance' = NextInstance
       /\ popupData' = NoData
       /\ fetchTreeView(NextInstance, ct)
  ELSE IF ct # clickedTree
  THEN /\ UNCHANGED <<popupInstance, popupData>>
       /\ fetchTreeView(popupInstance, ct)
  ELSE UNCHANGED popupVars

\* A click on the map (DeckGL onClick) at point that picked info
handleTreeClick(info, point) ==
  /\ MapRendered
  /\ Pickable(info)
  /\ IF info.picked /\ info.layer = "trees"
     THEN /\ clickedTree' = info.object
          /\ popupPosition' = point
          /\ PopupCommit(info.object, point)
     ELSE UNCHANGED <<clickedTree, popupPosition, popupVars>>
  /\ UNCHANGED <<treeData, streetViewData, appLoading, appError, loadData, trees,
                 maskCalls, viewerVars>>

\* A close handler that forgets the popup position
handleCloseModalTreeOnly ==
  /\ clickedTree' = NoTree
  /\ UNCHANGED popupPosition
  /\ PopupCommit(NoTree, popupPosition)
  /\ UNCHANGED <<treeData, streetViewData, appLoading, appError, loadData, trees,
                 maskCalls, viewerVars>>

handleCloseModal ==
  /\ clickedTree' = NoTree
  /\ popupPosition' = NoPosition
  /\ PopupCommit(NoTree, NoPosition)
  /\ UNCHANGED <<treeData, streetViewData, appLoading, appError, loadData, trees,
                 maskCalls, viewerVars>>

\* The close button of the popup: onClick={onClose}
closeButton ==
  /\ popupInstance # NoInstance
  /\ handleCloseModal

\* The keydown listener TreePopup keeps on document while it is mounted
handleKeyDown(key) ==
  /\ popupInstance # NoInstance
  /\ IF key = "Escape" THEN handleCloseModal ELSE UNCHANGED vars

\* Request r resolved or threw: the setState calls that follow reach the
\* instance that issued it, if it is still mounted
StillMounted(r) == popupFetches[r].instance = popupInstance

\* The response of request r has success true: setData, setLoading(false)
treeViewSucceeds(r) ==
  /\ r \in DOMAIN popupFetches
  /\ popupFetches[r].status = "pending"
  /\ popupFetches' = [popupFetches EXCEPT ![r].status = "ok"]
  /\ IF StillMounted(r)
     THEN /\ popupData' = popupFetches[r].csvIndex
          /\ popupLoading' = FALSE
          /\ UNCHANGED popupError
     ELSE UNCHANGED <<popupData, popupLoading, popupError>>
  /\ UNCHANGED <<popupInstance, appVars, maskCalls, viewerVars>>

\* The end of fetchTreeView on a failure: setError(message),
\* setLoading(false)
treeViewFails(r, status, message) ==
  /\ r \in DOMAIN popupFetches
  /\ popupFetches[r].status = "pending"
  /\ popupFetches' = [popupFetches EXCEPT ![r].status = status]
  /\ IF StillMounted(r)
     THEN /\ popupError' = Some(message)
          /\ popupLoading' = FALSE
          /\ UNCHANGED popupData
     ELSE UNCHANGED <<popupData, popupLoading, popupError>>
  /\ UNCHANGED <<popupInstance, appVars, maskCalls, viewerVars>>

\* The response of request r has success false:
\* setError(response.data.error || 'Unknown error occurred')
treeViewUnsuccessful(r, errorText) ==
  treeViewFails(r, "unsuccessful",
                IF errorText = "" THEN "Unknown error occurred" ELSE errorText)

\* axios.get of request r throws (transport error, timeout, status >= 400)
treeViewThrows(r) == treeViewFails(r, "threw", "Failed to load tree view")

\* App's data load, the clicks on its map and the popup they open.  The
\* viewer App renders beside the map is left at its initial state here: its
\* panoId prop is ViewerPanoId(clickedTree).
AppNext ==
  \/ \E ts \in TreePayloads : loadTreeDataResolves(ts)
  \/ \E c \in TreeDataCauses : loadTreeDataRejects(c)
  \/ \E svs \in StreetViewPayloads : loadStreetViewDataResolves(svs)
  \/ \E c \in StreetViewCauses : loadStreetViewDataRejects(c)
  \/ \E info \in PickInfos, point \in ClickPoints : handleTreeClick(info, point)
  \/ closeButton
  \/ \E key \in Keys : handleKeyDown(key)
  \/ \E r \in 1..MaxPopupFetches : treeViewSucceeds(r)
  \/ \E r \in 1..MaxPopupFetches, e \in TreeViewErrors : treeViewUnsuccessful(r, e)
  \/ \E r \in 1..MaxPopupFetches : treeViewThrows(r)

AppSpec == Init /\ [][AppNext]_vars

\* ------------------------------------------------- loadPanoramaMaskData
\* A catch block that passes the error on
maskCatchRethrows(call) ==
  [call EXCEPT !.at = "returned", !.promise = "rejected"]

\* The catch block of loadPanoramaMaskData: return null
maskCatch(call) ==
  [call EXCEPT !.at = "returned", !.promise = "fulfilled", !.value = NoMask]

\* A call of loadPanoramaMaskData(panoId) up to `await fetch(...)`
loadPanoramaMaskData(p) ==
  /\ Len(maskCalls) < MaxMaskCalls
  /\ maskCalls' = Append(maskCalls,
                         [panoId |-> p, at |-> "fetch", outcome |-> "none",
                          promise |-> "pending", value |-> NoMask])
  /\ UNCHANGED <<appVars, popupVars, viewerVars>>

\* fetch rejects (transport error): the catch block runs
maskFetchRejects(c) ==
  /\ c \in DOMAIN maskCalls
  /\ maskCalls[c].at = "fetch"
  /\ maskCalls' = [maskCalls EXCEPT ![c] = maskCatch([@ EXCEPT !.outcome = "rejected"])]
  /\ UNCHANGED <<appVars, popupVars, viewerVars>>

\* fetch resolves with a response of the given status: a 404 returns null, any
\* other status that is not ok throws into the catch block, an ok one goes on
\* to `await response.json()`
maskFetchResponds(c, status) ==
  /\ c \in DOMAIN maskCalls
  /\ maskCalls[c].at = "fetch"
  /\ maskCalls' =
       [maskCalls EXCEPT ![c] =
          IF status \in 200..299
          THEN [@ EXCEPT !.at = "json"]
          ELSE IF status = 404
          THEN [@ EXCEPT !.at = "returned", !.outcome = "not found",
                         !.promise = "fulfilled", !.value = NoMask]
          ELSE maskCatch([@ EXCEPT !.outcome = "not ok"])]
  /\ UNCHANGED <<appVars, popupVars, viewerVars>>

\* response.json() resolves with the parsed body: return maskData
maskJsonResolves(c, maskData) ==
  /\ c \in DOMAIN maskCalls
  /\ maskCalls[c].at = "json"
  /\ maskCalls' = [maskCalls EXCEPT ![c] =
                     [@ EXCEPT !.at = "returned", !.outcome = "ok",
                               !.promise = "fulfilled", !.value = maskData]]
  /\ UNCHANGED <<appVars, popupVars, viewerVars>>

\* response.json() rejects (the body is not JSON): the catch block runs
maskJsonRejects(c) ==
  /\ c \in DOMAIN maskCalls
  /\ maskCalls[c].at = "json"
  /\ maskCalls' = [maskCalls EXCEPT ![c] = maskCatch([@ EXCEPT !.outcome = "invalid JSON"])]
  /\ UNCHANGED <<appVars, popupVars, viewerVars>>

\* Calls of loadPanoramaMaskData and the outcomes of their requests
MaskNext ==
  \/ \E p \in PanoIds : loadPanoramaMaskData(p)
  \/ \E c \in 1..MaxMaskCalls : maskFetchRejects(c)
  \/ \E c \in 1..MaxMaskCalls, st \in HttpStatuses : maskFetchResponds(c, st)
  \/ \E c \in 1..MaxMaskCalls, m \in MaskPayloads : maskJsonResolves(c, m)
  \/ \E c \in 1..MaxMaskCalls : maskJsonRejects(c)

MaskSpec == Init /\ [][MaskNext]_vars

TypeOK ==
  /\ mounted \in BOOLEAN
  /\ panoId \in PanoIds \cup {NoPano}
  /\ clickedImagePath \in ImagePaths \cup {NoPath}
  /\ panoramaImage \in 0..MaxFetches
  /\ loading \in BOOLEAN
  /\ Len(fetches) <= MaxFetches
  /\ objectURLs \subseteq 1..MaxFetches
  /\ sceneRef \in 0..Len(scenes)
  /\ lon \in -LonBound..LonBound
  /\ mountSize \in SurfaceSizes
  /\ releasedUnseen \in BOOLEAN
  /\ treeData \in TreePayloads
  /\ streetViewData \in StreetViewPayloads
  /\ appLoading \in BOOLEAN
  /\ clickedTree \in TreeIds \cup {NoTree}
  /\ popupPosition \in ClickPoints \cup {NoPosition}
  /\ Len(popupFetches) <= MaxPopupFetches
  /\ popupData \in TreeIds \cup {NoData}
  /\ Len(maskCalls) <= MaxMaskCalls

\* ------------------------------------------------------------------ claims
\* Request r is the most recently issued one and the props still ask for it
IsCurrent(r) == mounted /\ panoId # NoPano /\ r = Len(fetches)

\* Request r was superseded by a later request
IsStale(r) == mounted /\ r < Len(fetches)

\* This step resolves request r with the given outcome
Resolves(r, outcome) ==
  /\ r \in DOMAIN fetches
  /\ fetches[r] = "pending"
  /\ fetches'[r] = outcome

CameraIsFresh ==
  /\ lon = 0
  /\ lat = 0
  /\ fov = InitialFov * FovScale
  /\ ~isMouseDown

\* C1: once the most recently issued request has succeeded, the image shown
\* is that request's image; the successful response of an earlier request
\* never replaces it.
C1_LatestImageStays ==
  (mounted /\ panoId # NoPano /\ fetches # <<>> /\ fetches[Len(fetches)] = "ok")
    => panoramaImage = Len(fetches)

\* C2: at most one scene set is created and not yet disposed.
C2_AtMostOneLiveScene == Cardinality(LiveScenes) <= 1

C2_Witness ==
  /\ Len(scenes) >= 2
  /\ scenes[1].disposed
  /\ Cardinality(LiveScenes) = 1

\* C3: in every state reached with panoId null no scene set is live, and the
\* step that reaches it issues no fetch.
C3_NullPanoNoFetchNoScene ==
  [][panoId' = NoPano => (LiveScenes' = {} /\ Len(fetches') = Len(fetches))]_vars

C3_Witness ==
  /\ mounted
  /\ panoId = NoPano
  /\ panoramaImage # NoImage
  /\ \E k \in DOMAIN scenes : scenes[k].disposed

\* C4: latitude stays within [-85, 85] and the field of view within [10, 75].
C4_CameraInRange ==
  /\ lat \in (MinLat * AngleScale)..(MaxLat * AngleScale)
  /\ fov \in (MinFov * FovScale)..(MaxFov * FovScale)

C4_Witness ==
  /\ lat = MinLat * AngleScale
  /\ fov = MinFov * FovScale
  /\ isMouseDown

\* C5: a change of (panoId, clickedImagePath) to a pair with a non-null
\* panoId puts the viewer in the loading state with the error cleared.
C5_NewRequestRestartsLoading ==
  [][(mounted /\ panoId' # NoPano
        /\ <<panoId', clickedImagePath'>> # <<panoId, clickedImagePath>>)
      => (Status' = "loading" /\ error' = None)]_vars

C5_Witness ==
  /\ Status = "loading"
  /\ panoramaImage # NoImage
  /\ LiveScenes # {}
  /\ \E r \in DOMAIN fetches : fetches[r] = "failed"

\* C6: while panoId is null the viewer is idle, no scene set is live and no
\* object URL remains un-revoked.
C6_NullReleasesEverything ==
  (mounted /\ panoId = NoPano)
    => (Status = "idle" /\ LiveScenes = {} /\ objectURLs = {})

\* C7: when the fetch of the current request succeeds the viewer is ready,
\* a scene set built from that response is live, and its camera is at
\* (0, 0, 75) with no drag active.
C7_SuccessBuildsFreshScene ==
  [][\A r \in DOMAIN fetches :
       (IsCurrent(r) /\ Resolves(r, "ok"))
         => /\ Status' = "ready"
            /\ \E k \in LiveScenes' : scenes'[k].image = r
            /\ CameraIsFresh']_vars

\* C8: when the fetch of the current request fails the viewer is in the
\* error state with a non-empty message and no scene set is created.
C8_FailureShowsError ==
  [][\A r \in DOMAIN fetches :
       (IsCurrent(r) /\ Resolves(r, "failed"))
         => /\ Status' = "error"
            /\ error' # None /\ error'[1] # ""
            /\ Len(scenes') = Len(scenes)]_vars

C8_Witness ==
  /\ Status = "error"
  /\ fetches # <<>>
  /\ fetches[Len(fetches)] = "failed"
  /\ error = Some(HttpErrorMessage(""))

\* C9: in the error state no scene set is live.
C9_ErrorStateHasNoScene == Status = "error" => LiveScenes = {}

\* C10: a failed response of a superseded request changes neither the error
\* message nor the status shown.
C10_StaleFailureDropped ==
  [][\A r \in DOMAIN fetches :
       (IsStale(r) /\ Resolves(r, "failed"))
         => (error' = error /\ Status' = Status)]_vars

\* C11: when the fetch of a request issued from the error state succeeds
\* while that request is still current, the viewer is ready and shows that
\* request's image.
C11_ErrorRecovers ==
  [][\A r \in DOMAIN fetches :
       (IsCurrent(r) /\ issuedInError /\ Resolves(r, "ok"))
         => (Status' = "ready" /\ panoramaImage' = r)]_vars

\* C12: when the image of the current request's scene cannot be decoded the
\* viewer is in the error state with a message, not in the ready state.
C12_DecodeErrorShown ==
  \A k \in DOMAIN scenes :
    (IsCurrent(scenes[k].image) /\ scenes[k].texture = "error")
      => (Status = "error" /\ Truthy(error))

\* No fetch issued so far is still pending
AllResolved == \A r \in DOMAIN fetches : fetches[r] # "pending"

\* C13: while mounted the only object URL not revoked is the one shown, and
\* once the component is unmounted and every fetch has resolved no object
\* URL remains un-revoked.
C13_ObjectURLsRevoked ==
  /\ mounted => objectURLs \subseteq {panoramaImage}
  /\ (~mounted /\ AllResolved) => objectURLs = {}

\* The viewer is unloaded: unmounted or back to panoId null, with no fetch
\* outstanding
Unloaded == (~mounted \/ panoId = NoPano) /\ AllResolved

\* C14: once the viewer is unloaded no texture or geometry is live and no
\* listener it registered is still registered, as before the first load.
C14_BackToBaseline ==
  Unloaded => \A k \in DOMAIN scenes :
                /\ scenes[k].disposed
                /\ scenes[k].texture = "disposed"
                /\ scenes[k].listeners = {}

\* C15: the teardown of a scene first removes every input listener the
\* scene effect registered, then the resize listener, then disposes
\* geometry, material and texture, then releases the render surface
\* (renderer), then revokes the object URL.
C15_TeardownOrder ==
  LET steps == EffectCleanupSteps(hasCleanup, sceneRef, panoramaImage)
      Has(e) == \E i \in DOMAIN steps : steps[i] = e
      Pos(e) == CHOOSE i \in DOMAIN steps : steps[i] = e
      Before(a, b) == Has(a) /\ Has(b) /\ Pos(a) < Pos(b)
      resize == <<"removeEventListener", "resize">>
      surface == <<"dispose", "renderer">>
  IN (mounted /\ hasCleanup)
       => /\ \A l \in InputListeners : Before(<<"removeEventListener", l>>, resize)
          /\ \A g \in {"geometry", "material", "texture"} :
               Before(resize, <<"dispose", g>>) /\ Before(<<"dispose", g>>, surface)
          /\ Before(surface, <<"revokeObjectURL", "panoramaImage">>)

RECURSIVE ScheduledUpTo(_)
\* Callbacks scheduled with requestAnimationFrame by scenes 1..n
ScheduledUpTo(n) == IF n = 0 THEN 0 ELSE scenes[n].raf + ScheduledUpTo(n - 1)

\* C16: at most one render callback is scheduled at any moment.
C16_OneScheduledCallback == ScheduledUpTo(Len(scenes)) <= 1

\* C17: no render step is executed against a scene that has been torn down.
C17_NoRenderAfterTeardown == lastRender # "disposed"

\* C18: while the fetch of the most recently issued request is pending the
\* viewer is in the loading state.
C18_PendingMeansLoading ==
  (mounted /\ panoId # NoPano /\ fetches # <<>> /\ fetches[Len(fetches)] = "pending")
    => Status = "loading"

\* C19: a step issues a fetch, and exactly one, if and only if it changes
\* (panoId, clickedImagePath) to a pair with a non-null panoId; no other
\* step, a failure included, adds a fetch.
C19_OneFetchPerChange ==
  [][LET changed == /\ mounted
                    /\ panoId' # NoPano
                    /\ <<panoId', clickedImagePath'>> # <<panoId, clickedImagePath>>
     IN /\ changed => /\ Len(fetches') = Len(fetches) + 1
                      /\ fetches'[Len(fetches')] = "pending"
        /\ ~changed => Len(fetches') = Len(fetches)]_vars

C19_Witness ==
  /\ Status = "error"
  /\ Len(fetches) >= 2
  /\ fetches[Len(fetches)] = "failed"
  /\ AllResolved

\* C20: a pointer-move at (x, y) received while a drag is active subtracts
\* (x - mouseX) * 0.1 from the longitude, adds (y - mouseY) * 0.1 to the
\* latitude and clamps it to [-85, 85], leaves the field of view alone and
\* records (x, y) as the pointer position.
C20_DragMoveUpdate ==
  [][\A x \in MouseXs, y \in MouseYs :
       (isMouseDown /\ onMouseMove(x, y))
         => LET moved == lat + (y - mouseY)
            IN /\ lon' = lon - (x - mouseX)
               /\ lat' = IF moved > 85 * AngleScale THEN 85 * AngleScale
                         ELSE IF moved < -85 * AngleScale THEN -85 * AngleScale
                         ELSE moved
               /\ fov' = fov
               /\ mouseX' = x
               /\ mouseY' = y]_vars

C20_Witness ==
  /\ isMouseDown
  /\ lon = 20
  /\ lat = -50
  /\ mouseX = 80
  /\ mouseY = 0

\* C21 (as stated): after pointer-down at (100, 100) a pointer-move to
\* (80, 130) decreases the longitude by 2.0 and increases the latitude by 3.0
\* (latitude not at its limit).
C21_ScenarioAsStated ==
  [][(/\ isMouseDown /\ mouseX = 100 /\ mouseY = 100
      /\ lat + 3 * AngleScale <= MaxLat * AngleScale
      /\ onMouseMove(80, 130))
       => (lon' = lon - 2 * AngleScale /\ lat' = lat + 3 * AngleScale)]_vars

\* C21 (amended): after pointer-down at (100, 100) a pointer-move to
\* (80, 130) increases the longitude by 2.0 and increases the latitude by 3.0
\* (latitude not at its limit).
C21_ScenarioAmended ==
  [][(/\ isMouseDown /\ mouseX = 100 /\ mouseY = 100
      /\ lat + 3 * AngleScale <= MaxLat * AngleScale
      /\ onMouseMove(80, 130))
       => (lon' = lon + 2 * AngleScale /\ lat' = lat + 3 * AngleScale)]_vars

C21_Witness ==
  /\ isMouseDown
  /\ mouseX = 80
  /\ mouseY = 130
  /\ lon = 2 * AngleScale
  /\ lat = 3 * AngleScale

\* C22: a wheel event with delta deltaY makes the field of view
\* clamp(fov + deltaY * 0.05, 10, 75) and leaves longitude, latitude and the
\* drag state alone; with deltaY = 200 at 75 the field of view stays 75.
\* (fov is in twentieths of a degree, so deltaY * 0.05 degrees is deltaY.)
C22_WheelUpdate ==
  [][\A d \in ScenarioDeltas :
       onWheel(d)
         => LET v == fov + d
            IN /\ fov' = IF v < 10 * FovScale THEN 10 * FovScale
                         ELSE IF v > 75 * FovScale THEN 75 * FovScale
                         ELSE v
               /\ (d = 200 /\ fov = 75 * FovScale) => fov' = 75 * FovScale
               /\ UNCHANGED <<lon, lat, isMouseDown, mouseX, mouseY>>]_vars

C22_Witness ==
  /\ fov = 35 * FovScale
  /\ isMouseDown
  /\ lon = 2 * AngleScale

\* C23: while the viewer is ready the camera aspect ratio is the width of
\* the mount div over its height and the render target has the size of the
\* mount div, whatever resized the div.
C23_SurfaceTracked ==
  ListenersActive
    => /\ cameraAspect[2] # 0
       /\ cameraAspect[1] * mountSize[2] = cameraAspect[2] * mountSize[1]
       /\ rendererSize = mountSize

\* C24: the drag is active exactly from a pointer-down on the mount div
\* until the next pointer-up (no other event starts or ends it), and a
\* pointer-move received while no drag is active changes neither longitude,
\* latitude, field of view nor the recorded pointer position.
C24_DragState ==
  [][/\ (\E x \in ScenarioXs, y \in ScenarioYs : onMouseDown(x, y)) => isMouseDown'
     /\ (onMouseUp \/ mouseUpOutside) => ~isMouseDown'
     /\ (\E d \in ScenarioDeltas : onWheel(d)) => isMouseDown' = isMouseDown
     /\ \A x \in ScenarioXs, y \in ScenarioYs :
          onMouseMove(x, y)
            => /\ isMouseDown' = isMouseDown
               /\ ~isMouseDown => UNCHANGED <<lon, lat, fov, mouseX, mouseY>>]_vars

\* The pointer button is held down (presses begin on the mount div)
ButtonPressed == isMouseDown /\ ~releasedUnseen

\* C25: a pointer-move received while no button is pressed changes neither
\* longitude nor latitude, wherever the button was released.
C25_NoDragAfterRelease ==
  [][\A x \in ScenarioXs, y \in ScenarioYs :
       (~ButtonPressed /\ onMouseMove(x, y)) => UNCHANGED <<lon, lat>>]_vars

\* C26: clickedTree and popupPosition are both null or both set; a click
\* sets them only when it picks an object of the 'trees' layer and leaves
\* them alone otherwise; the close button and Escape set both to null, which
\* makes the panoId passed to the viewer null; nothing else changes them.
C26_PopupStateTogether ==
  [][/\ (clickedTree' = NoTree) <=> (popupPosition' = NoPosition)
     /\ \A info \in PickInfos, point \in ClickPoints :
          handleTreeClick(info, point)
            => IF info.layer = "trees"
               THEN clickedTree' = info.object /\ popupPosition' = point
               ELSE UNCHANGED <<clickedTree, popupPosition>>
     /\ (closeButton \/ handleKeyDown("Escape"))
          => /\ clickedTree' = NoTree
             /\ popupPosition' = NoPosition
             /\ ViewerPanoId(clickedTree') = NoPano
     /\ (clickedTree' # clickedTree \/ popupPosition' # popupPosition)
          => \/ \E info \in PickInfos, point \in ClickPoints : handleTreeClick(info, point)
             \/ closeButton
             \/ handleKeyDown("Escape")]_vars

C26_Witness ==
  /\ clickedTree = NoTree
  /\ popupPosition = NoPosition
  /\ popupFetches # <<>>
  /\ streetViewData # {}

\* C27: treeData and streetViewData are stored only when both loads
\* succeeded; when either fails both stay empty and the error is set; either
\* way loading ends false, and it never goes back to true.
C27_LoadAllOrNothing ==
  [][/\ appLoading' => appLoading
     /\ (treeData' # {} \/ streetViewData' # {}) => loadData' = "done"
     /\ loadData' = "done"
          => /\ treeData' = trees'
             /\ ~appLoading'
             /\ appError' = None
     /\ loadData' = "failed"
          => /\ treeData' = {}
             /\ streetViewData' = {}
             /\ Truthy(appError')
             /\ ~appLoading']_vars

C27_Witness ==
  /\ loadData = "failed"
  /\ trees # {}
  /\ treeData = {}
  /\ ~appLoading

\* TreePopup renders the tree-view image
ShowsImage == popupInstance # NoInstance /\ popupData # NoData /\ ~popupLoading

\* TreePopup renders the error message
ShowsError == popupInstance # NoInstance /\ Truthy(popupError)

\* The request for the current csvIndex: the last one issued
CurrentRequest == popupFetches[Len(popupFetches)]

\* C28: once the request for the current csvIndex has completed, the image
\* and the error are not both shown, the image is shown only if that request
\* succeeded and the error only if it failed.
C28_ImageXorError ==
  (popupInstance # NoInstance /\ CurrentRequest.status # "pending")
    => /\ ~(ShowsImage /\ ShowsError)
       /\ ShowsImage => CurrentRequest.status = "ok"
       /\ ShowsError => CurrentRequest.status \in {"unsuccessful", "threw"}

\* C29: once every request of the mounted popup has resolved and the one for
\* the current csvIndex succeeded, the data shown is the response for the
\* current csvIndex.
C29_LatestResponseShown ==
  (/\ popupInstance # NoInstance
   /\ \A r \in DOMAIN popupFetches :
        popupFetches[r].instance = popupInstance => popupFetches[r].status # "pending"
   /\ CurrentRequest.status = "ok")
    => popupData = clickedTree

\* C30: a call of loadPanoramaMaskData never rejects; once it has returned,
\* it resolved with the parsed mask data if the request succeeded and with
\* null in every other case.
C30_MaskNeverRejects ==
  \A c \in DOMAIN maskCalls :
    /\ maskCalls[c].promise # "rejected"
    /\ maskCalls[c].at = "returned"
         => /\ maskCalls[c].promise = "fulfilled"
            /\ IF maskCalls[c].outcome = "ok"
               THEN maskCalls[c].value \in MaskPayloads
               ELSE maskCalls[c].value = NoMask

C30_Witness ==
  /\ Len(maskCalls) = 2
  /\ maskCalls[1].at = "returned"
  /\ maskCalls[1].outcome = "not ok"
  /\ maskCalls[2].at = "returned"
  /\ maskCalls[2].outcome = "invalid JSON"
====
